---- MODULE Spec2Model ----
(***************************************************************************)
(* Collection-curves dashboard: the client-side pages (dashboard,          *)
(* providers, analytics, curves, admin upload) over the fund_data table.   *)
(*                                                                         *)
(* Encoding of JavaScript values                                           *)
(*   - a numeric, boolean or date column holds a tagged value [t, v]:      *)
(*     Num(n), Bool(b), DateStr(day), EmptyStr, Null, Undefined;           *)
(*   - a text column (provider_name_per_tbr, case_status) holds a string,  *)
(*     with JS null and undefined written NULL and UNDEFINED;              *)
(*   - a time value (Date.getTime()) is counted in whole days, so the      *)
(*     divisor 1000*60*60*24 of the source is 1 and 30 days is 30;         *)
(*     an invalid Date has the time value NaN;                             *)
(*   - a fractional number is an exact rational [n, d] in lowest terms.    *)
(***************************************************************************)
EXTENDS Integers, Sequences, FiniteSets, TLC

VARIABLES
    supabase,       \* TRUE when the client was created, FALSE when it is null
    db,             \* rows of fund_data returned by select('*')
    page,           \* the mounted page: "none", "dashboard", "providers", "analytics", "curves"
    loading,        \* the mounted page's loading flag
    error,          \* dashboard: the error message, NULL when none
    inflight,       \* number of fetches of the mounted page awaiting the query
    outcome,        \* how the last fetch of the mounted page ended: "none" (none ended yet),
                    \* "ok", "not_initialized", "query_error", "exception"
    fundData,       \* dashboard state
    providers,      \* providers page state
    analyticsData,  \* analytics page state
    timeFrame,      \* analytics page state
    curveData,      \* curves page state
    curveProviders, \* curves page state (providers)
    selectedProviders, \* curves page state
    nowRead,        \* the clock value new Date() returned in the last curves run
    last,           \* the previous successful pipeline run: [page, now, out]
    selectedFile,   \* admin page: number of non-blank lines of the selected file, -1 when none
    uploading,      \* admin page state
    uploadProgress, \* admin page state
    message,        \* admin page state: the message type
    uploadStats,    \* admin page state
    runs            \* admin page: the handleUpload invocations and their reader callbacks

pageVars == <<page, loading, error, inflight, outcome, fundData, providers,
              analyticsData, timeFrame, curveData, curveProviders,
              selectedProviders, nowRead>>
adminVars == <<selectedFile, uploading, uploadProgress, message, uploadStats, runs>>
vars == <<supabase, db, pageVars, last, adminVars>>

-----------------------------------------------------------------------------
(* JavaScript values *)

NULL == "<null>"
UNDEFINED == "<undefined>"

Null == [t |-> "null", v |-> 0]
Undefined == [t |-> "undefined", v |-> 0]
EmptyStr == [t |-> "empty", v |-> 0]
NaN == [t |-> "NaN", v |-> 0]
Num(n) == [t |-> "number", v |-> n]
DateStr(day) == [t |-> "date", v |-> day]
Bool(b) == [t |-> "boolean", v |-> IF b THEN 1 ELSE 0]

\* !x for a text column
Falsy(s) == s \in {NULL, UNDEFINED, ""}

\* truthiness of a tagged value
Truthy(x) ==
    \/ x.t = "date"
    \/ x.t = "number" /\ x.v # 0
    \/ x.t = "boolean" /\ x.v = 1

\* x || 0 for a numeric column
OrZero(x) == IF Truthy(x) THEN x.v ELSE 0

\* x > 0 for a numeric column (null > 0 and undefined > 0 are false)
GreaterThanZero(x) == x.t = "number" /\ x.v > 0

-----------------------------------------------------------------------------
(* Exact arithmetic on fractions *)

Abs(x) == IF x < 0 THEN -x ELSE x

RECURSIVE GCD(_, _)
GCD(a, b) == IF b = 0 THEN a ELSE GCD(b, a % b)

Rat(n, d) ==
    LET g == GCD(Abs(n), Abs(d))
        s == IF d < 0 THEN -1 ELSE 1
    IN  [n |-> (s * n) \div g, d |-> (s * d) \div g]

Zero == [n |-> 0, d |-> 1]
RInt(k) == [n |-> k, d |-> 1]

\* the operations cancel common factors before they multiply, which keeps
\* the intermediate products small
RAdd(a, b) ==
    LET g == GCD(a.d, b.d)
    IN  Rat(a.n * (b.d \div g) + b.n * (a.d \div g), (a.d \div g) * b.d)
RNeg(a) == [n |-> -a.n, d |-> a.d]
RSub(a, b) == RAdd(a, RNeg(b))
RMul(a, b) ==
    LET g1 == GCD(Abs(a.n), b.d)
        g2 == GCD(Abs(b.n), a.d)
    IN  Rat((a.n \div g1) * (b.n \div g2), (a.d \div g2) * (b.d \div g1))
RDiv(a, b) == RMul(a, Rat(b.d, b.n))
RLe(a, b) ==
    LET g == GCD(a.d, b.d)
    IN  a.n * (b.d \div g) <= b.n * (a.d \div g)
RLt(a, b) == ~RLe(b, a)
RMin(a, b) == IF RLe(a, b) THEN a ELSE b
RMax(a, b) == IF RLe(a, b) THEN b ELSE a

-----------------------------------------------------------------------------
(* Providers page: fetchProviderData *)

\* position of the bucket keyed by provider in an insertion-ordered map, 0 when absent
ProviderIndex(map, provider) ==
    IF \E k \in 1..Len(map) : map[k].provider_name_per_tbr = provider
    THEN CHOOSE k \in 1..Len(map) : map[k].provider_name_per_tbr = provider
    ELSE 0

NewProviderBucket(provider) ==
    [provider_name_per_tbr |-> provider,
     total_sent |-> 0,
     total_repaid |-> 0,
     case_count |-> 0,
     pending_cases |-> 0,
     closed_cases |-> 0,
     total_multiple |-> Zero]

\* case_status === 'Pending' / else if (record.repaid)
IsPendingAnyCase(record) == record.case_status \in {"Pending", "pending"}
IsPendingCase(record) == record.case_status = "Pending"
IsClosedCase(record) == ~IsPendingCase(record) /\ Truthy(record.repaid)

AddSentSwapped(p, record) == p.total_sent + OrZero(record.total_repaid)
AddSent(p, record) == p.total_sent + OrZero(record.total_sent)

AddToProviderLast(p, record) ==
    [p EXCEPT
        !.total_sent = OrZero(record.total_sent),
        !.total_repaid = OrZero(record.total_repaid),
        !.case_count = 1,
        !.pending_cases = IF IsPendingCase(record) THEN 1 ELSE 0,
        !.closed_cases = IF IsClosedCase(record) THEN 1 ELSE 0]
AddToProviderCountingSent(p, record) ==
    [p EXCEPT
        !.total_sent = AddSent(p, record),
        !.total_repaid = @ + OrZero(record.total_repaid),
        !.case_count = IF GreaterThanZero(record.total_sent) THEN @ + 1 ELSE @,
        !.pending_cases = IF IsPendingCase(record) THEN @ + 1 ELSE @,
        !.closed_cases = IF IsClosedCase(record) THEN @ + 1 ELSE @,
        !.total_multiple =
            IF GreaterThanZero(record.total_sent)
            THEN RAdd(@, Rat(OrZero(record.total_repaid), record.total_sent.v))
            ELSE @]
\* lines 65-78: the accumulation into the record's bucket
AddToProvider(p, record) ==
    [p EXCEPT
        !.total_sent = AddSent(p, record),
        !.total_repaid = @ + OrZero(record.total_repaid),
        !.case_count = @ + 1,
        !.pending_cases = IF IsPendingCase(record) THEN @ + 1 ELSE @,
        !.closed_cases = IF IsClosedCase(record) THEN @ + 1 ELSE @,
        !.total_multiple =
            IF GreaterThanZero(record.total_sent)
            THEN RAdd(@, Rat(OrZero(record.total_repaid), record.total_sent.v))
            ELSE @]

SkipsProviderNever(provider) == FALSE
\* line 51: if (!provider) return
SkipsProvider(provider) == Falsy(provider)

\* lines 49-79: the body of data.forEach
ProviderForEachBody(map, record) ==
    LET provider == record.provider_name_per_tbr IN
    IF SkipsProvider(provider) THEN map
    ELSE LET m1 == IF ProviderIndex(map, provider) = 0
                   THEN Append(map, NewProviderBucket(provider))
                   ELSE map
             k == ProviderIndex(m1, provider)
         IN  [m1 EXCEPT ![k] = AddToProvider(m1[k], record)]

RECURSIVE ProviderForEach(_, _, _)
ProviderForEach(data, i, map) ==
    IF i > Len(data) THEN map
    ELSE ProviderForEach(data, i + 1, ProviderForEachBody(map, data[i]))

FinishProviderFullRate(p) ==
    [provider_name_per_tbr |-> p.provider_name_per_tbr,
     total_sent |-> p.total_sent,
     total_repaid |-> p.total_repaid,
     case_count |-> p.case_count,
     pending_cases |-> p.pending_cases,
     closed_cases |-> p.closed_cases,
     total_multiple |-> p.total_multiple,
     avg_multiple |-> IF p.case_count > 0
                      THEN RDiv(p.total_multiple, RInt(p.case_count)) ELSE Zero,
     recovery_rate |-> IF p.total_sent > 0
                       THEN RMul(Rat(p.total_repaid, p.total_sent), RInt(100))
                       ELSE RInt(100)]
\* lines 82-86: averages and recovery rates
FinishProvider(p) ==
    [provider_name_per_tbr |-> p.provider_name_per_tbr,
     total_sent |-> p.total_sent,
     total_repaid |-> p.total_repaid,
     case_count |-> p.case_count,
     pending_cases |-> p.pending_cases,
     closed_cases |-> p.closed_cases,
     total_multiple |-> p.total_multiple,
     avg_multiple |-> IF p.case_count > 0
                      THEN RDiv(p.total_multiple, RInt(p.case_count)) ELSE Zero,
     recovery_rate |-> IF p.total_sent > 0
                       THEN RMul(Rat(p.total_repaid, p.total_sent), RInt(100)) ELSE Zero]

ProcessProviders(data) ==
    LET map == ProviderForEach(data, 1, <<>>)
    IN  [k \in 1..Len(map) |-> FinishProvider(map[k])]

-----------------------------------------------------------------------------
(* Dates *)

\* new Date(x).getTime(), in days: new Date(undefined) and new Date('') are
\* invalid, new Date(null) is the epoch
GetTime(x) ==
    CASE x.t = "date" -> Num(x.v)
      [] x.t = "null" -> Num(0)
      [] OTHER -> NaN

\* the calendar year and month of a day count since 1970-01-01 (UTC),
\* as toISOString() prints them
CivilFromDays(days) ==
    LET z == days + 719468
        era == z \div 146097
        doe == z - era * 146097
        yoe == (doe - doe \div 1460 + doe \div 36524 - doe \div 146096) \div 365
        doy == doe - (365 * yoe + yoe \div 4 - yoe \div 100)
        mp == (5 * doy + 2) \div 153
        m == IF mp < 10 THEN mp + 3 ELSE mp - 9
        y == yoe + era * 400 + (IF m <= 2 THEN 1 ELSE 0)
    IN  [year |-> y, month |-> m]

\* toISOString().slice(0, 7), "YYYY-MM" written as the number YYYYMM
IsoMonth(days) == CivilFromDays(days).year * 100 + CivilFromDays(days).month

-----------------------------------------------------------------------------
(* Analytics page: fetchAnalyticsData *)

AnalyticsIndex(map, provider) ==
    IF \E k \in 1..Len(map) : map[k].provider = provider
    THEN CHOOSE k \in 1..Len(map) : map[k].provider = provider
    ELSE 0

MonthIndex(monthly, month) ==
    IF \E k \in 1..Len(monthly) : monthly[k].month = month
    THEN CHOOSE k \in 1..Len(monthly) : monthly[k].month = month
    ELSE 0

NewAnalytics(provider) ==
    [provider |-> provider,
     totalInvested |-> 0,
     totalRecovered |-> 0,
     caseCount |-> 0,
     recoveryTimes |-> <<>>,
     monthlyPerformance |-> <<>>]

\* line 81: new Date(record.origination_date).toISOString() throws a
\* RangeError on an invalid Date
ToISOStringThrows(record) == GetTime(record.origination_date).t = "NaN"

\* lines 66-87: the accumulation into the record's analytics entry
AddToAnalytics(a, record) ==
    LET times ==
            IF Truthy(record.origination_date) /\ Truthy(record.repayment_date)
            THEN Append(a.recoveryTimes,
                        GetTime(record.repayment_date).v - GetTime(record.origination_date).v)
            ELSE a.recoveryTimes
        month == IsoMonth(GetTime(record.origination_date).v)
        mp1 == IF MonthIndex(a.monthlyPerformance, month) = 0
               THEN Append(a.monthlyPerformance,
                           [month |-> month, invested |-> 0, recovered |-> 0])
               ELSE a.monthlyPerformance
        j == MonthIndex(mp1, month)
    IN  [a EXCEPT
            !.totalInvested = @ + OrZero(record.total_sent),
            !.totalRecovered = @ + OrZero(record.total_repaid),
            !.caseCount = @ + 1,
            !.recoveryTimes = times,
            !.monthlyPerformance =
                [mp1 EXCEPT ![j] = [month |-> month,
                                    invested |-> mp1[j].invested + OrZero(record.total_sent),
                                    recovered |-> mp1[j].recovered + OrZero(record.total_repaid)]]]

\* lines 50-88: the body of data.forEach; acc.threw records an exception
\* that left the loop
AnalyticsForEachBody(acc, record) ==
    LET provider == record.provider_name_per_tbr IN
    IF acc.threw \/ Falsy(provider) THEN acc
    ELSE IF ToISOStringThrows(record) THEN [acc EXCEPT !.threw = TRUE]
    ELSE LET m1 == IF AnalyticsIndex(acc.map, provider) = 0
                   THEN Append(acc.map, NewAnalytics(provider))
                   ELSE acc.map
             k == AnalyticsIndex(m1, provider)
         IN  [acc EXCEPT !.map = [m1 EXCEPT ![k] = AddToAnalytics(m1[k], record)]]

RECURSIVE AnalyticsForEach(_, _, _)
AnalyticsForEach(data, i, acc) ==
    IF i > Len(data) THEN acc
    ELSE AnalyticsForEach(data, i + 1, AnalyticsForEachBody(acc, data[i]))

RECURSIVE SumSeq(_, _)
SumSeq(s, i) == IF i > Len(s) THEN 0 ELSE s[i] + SumSeq(s, i + 1)

RECURSIVE RSumSeq(_, _)
RSumSeq(s, i) == IF i > Len(s) THEN Zero ELSE RAdd(s[i], RSumSeq(s, i + 1))

\* lines 93-95
RecoveryRate(analytics) ==
    IF analytics.totalInvested > 0
    THEN Rat(analytics.totalRecovered, analytics.totalInvested)
    ELSE Zero

DefaultRecoveryTime == 365

AvgRecoveryTimeNoDefault(analytics) ==
    IF Len(analytics.recoveryTimes) > 0
    THEN Rat(SumSeq(analytics.recoveryTimes, 1), Len(analytics.recoveryTimes))
    ELSE Zero
\* lines 96-98
AvgRecoveryTime(analytics) ==
    IF Len(analytics.recoveryTimes) > 0
    THEN Rat(SumSeq(analytics.recoveryTimes, 1), Len(analytics.recoveryTimes))
    ELSE RInt(DefaultRecoveryTime)

RiskScoreUnclamped(recoveryRate, avgRecoveryTime) ==
    RAdd(RMul(RSub(RInt(1), recoveryRate), RInt(50)),
         RMul(RMin(RDiv(avgRecoveryTime, RInt(365)), RInt(1)), RInt(50)))
\* lines 99-102
RiskScore(recoveryRate, avgRecoveryTime) ==
    RMax(Zero, RMin(RInt(100),
        RAdd(RMul(RSub(RInt(1), recoveryRate), RInt(50)),
             RMul(RMin(RDiv(avgRecoveryTime, RInt(365)), RInt(1)), RInt(50)))))

PerformanceScoreUncapped(recoveryRate, caseCount, riskScore) ==
    RAdd(RAdd(RMul(recoveryRate, RInt(40)),
              RMul(RMin(Rat(caseCount, 10), RInt(1)), RInt(20))),
         RMul(RSub(RInt(1), RDiv(riskScore, RInt(100))), RInt(40)))
PerformanceScoreFalling(recoveryRate, caseCount, riskScore) ==
    RMin(RInt(100),
        RAdd(RAdd(RMul(RSub(RInt(1), recoveryRate), RInt(40)),
                  RMul(RMin(Rat(caseCount, 10), RInt(1)), RInt(20))),
             RMul(RSub(RInt(1), RDiv(riskScore, RInt(100))), RInt(40))))
\* lines 105-109
PerformanceScore(recoveryRate, caseCount, riskScore) ==
    RMin(RInt(100),
        RAdd(RAdd(RMul(recoveryRate, RInt(40)),
                  RMul(RMin(Rat(caseCount, 10), RInt(1)), RInt(20))),
             RMul(RSub(RInt(1), RDiv(riskScore, RInt(100))), RInt(40))))

RecoveryVelocityUnlessZero(recoveryRate, avgRecoveryTime) ==
    IF avgRecoveryTime # Zero
    THEN RDiv(RMul(recoveryRate, RInt(100)), RDiv(avgRecoveryTime, RInt(30)))
    ELSE Zero
\* lines 112-114
RecoveryVelocity(recoveryRate, avgRecoveryTime) ==
    IF RLt(Zero, avgRecoveryTime)
    THEN RDiv(RMul(recoveryRate, RInt(100)), RDiv(avgRecoveryTime, RInt(30)))
    ELSE Zero

\* lines 117-119
MonthlyRates(analytics) ==
    [k \in 1..Len(analytics.monthlyPerformance) |->
        IF analytics.monthlyPerformance[k].invested > 0
        THEN Rat(analytics.monthlyPerformance[k].recovered,
                 analytics.monthlyPerformance[k].invested)
        ELSE Zero]

\* lines 120-123
Variance(monthlyRates) ==
    LET avgRate == RDiv(RSumSeq(monthlyRates, 1), RInt(Len(monthlyRates)))
        sq == [k \in 1..Len(monthlyRates) |->
                  RMul(RSub(monthlyRates[k], avgRate), RSub(monthlyRates[k], avgRate))]
    IN  RDiv(RSumSeq(sq, 1), RInt(Len(monthlyRates)))

\* the largest integer whose square is at most n, by bisection on lo..hi
RECURSIVE ISqrt(_, _, _)
ISqrt(n, lo, hi) ==
    IF lo >= hi THEN lo
    ELSE LET mid == (lo + hi + 1) \div 2
         IN  IF mid * mid <= n THEN ISqrt(n, mid, hi) ELSE ISqrt(n, lo, mid - 1)

\* the precision Math.sqrt is modelled with: three decimal digits
SqrtDigits == 1000

\* the integer square root; 46340 is the largest root a 32-bit square has
Root(n) == ISqrt(n, 0, IF n < 46340 THEN n ELSE 46340)

\* Math.sqrt of a non-negative fraction: exact when numerator and denominator
\* are squares, otherwise rounded down to a multiple of 1/SqrtDigits
Sqrt(r) ==
    LET sn == Root(r.n)
        sd == Root(r.d)
    IN  IF sn * sn = r.n /\ sd * sd = r.d THEN Rat(sn, sd)
        ELSE LET scaled == (r.n * SqrtDigits * SqrtDigits) \div r.d
             IN  Rat(Root(scaled), SqrtDigits)

ConsistencyUnfloored(variance) ==
    RSub(RInt(100), RMul(Sqrt(variance), RInt(100)))
\* line 124
Consistency(variance) ==
    RMax(Zero, RSub(RInt(100), RMul(Sqrt(variance), RInt(100))))

EfficiencyUncapped(recoveryVelocity, consistency, performanceScore) ==
    RAdd(RAdd(RMul(recoveryVelocity, RInt(10)),
              RMul(consistency, Rat(3, 10))),
         RMul(performanceScore, Rat(6, 10)))
\* lines 127-131
Efficiency(recoveryVelocity, consistency, performanceScore) ==
    RMin(RInt(100),
        RAdd(RAdd(RMul(recoveryVelocity, RInt(10)),
                  RMul(consistency, Rat(3, 10))),
             RMul(performanceScore, Rat(6, 10))))

InvestmentGradeOpen(performanceScore) ==
    IF RLt(RInt(90), performanceScore) THEN "A"
    ELSE IF RLt(RInt(80), performanceScore) THEN "B"
    ELSE IF RLt(RInt(70), performanceScore) THEN "C"
    ELSE IF RLt(RInt(60), performanceScore) THEN "D"
    ELSE IF RLt(RInt(50), performanceScore) THEN "E"
    ELSE "F"
\* lines 134-139
InvestmentGrade(performanceScore) ==
    IF RLe(RInt(90), performanceScore) THEN "A"
    ELSE IF RLe(RInt(80), performanceScore) THEN "B"
    ELSE IF RLe(RInt(70), performanceScore) THEN "C"
    ELSE IF RLe(RInt(60), performanceScore) THEN "D"
    ELSE IF RLe(RInt(50), performanceScore) THEN "E"
    ELSE "F"

\* lines 91-151: the metrics of one provider
ScoreProvider(analytics) ==
    LET recoveryRate == RecoveryRate(analytics)
        avgRecoveryTime == AvgRecoveryTime(analytics)
        riskScore == RiskScore(recoveryRate, avgRecoveryTime)
        performanceScore == PerformanceScore(recoveryRate, analytics.caseCount, riskScore)
        recoveryVelocity == RecoveryVelocity(recoveryRate, avgRecoveryTime)
        consistency == Consistency(Variance(MonthlyRates(analytics)))
    IN  [provider |-> analytics.provider,
         investmentGrade |-> InvestmentGrade(performanceScore),
         riskScore |-> riskScore,
         performanceScore |-> performanceScore,
         recoveryVelocity |-> recoveryVelocity,
         consistency |-> consistency,
         volume |-> analytics.totalInvested,
         efficiency |-> Efficiency(recoveryVelocity, consistency, performanceScore)]

\* lines 47-151: [threw, out]; out is processedAnalytics when nothing threw
ProcessAnalytics(data) ==
    LET acc == AnalyticsForEach(data, 1, [threw |-> FALSE, map |-> <<>>])
    IN  [threw |-> acc.threw,
         out |-> IF acc.threw THEN <<>>
                 ELSE [k \in 1..Len(acc.map) |-> ScoreProvider(acc.map[k])]]

-----------------------------------------------------------------------------
(* Curves page: fetchCurveData *)

\* rank of a row in .order('origination_date', { ascending: true }):
\* '' before every date, null after every date
NullsLast == 1000000
OriginationKey(record) ==
    CASE record.origination_date.t = "date" -> record.origination_date.v
      [] record.origination_date.t = "empty" -> -1
      [] OTHER -> NullsLast

\* rows[1..i-1] sorted with rows[i] inserted after the rows it does not precede
RECURSIVE InsertOrdered(_, _)
InsertOrdered(sorted, record) ==
    IF sorted = <<>> THEN <<record>>
    ELSE IF OriginationKey(record) < OriginationKey(sorted[Len(sorted)])
         THEN Append(InsertOrdered(SubSeq(sorted, 1, Len(sorted) - 1), record),
                     sorted[Len(sorted)])
         ELSE Append(sorted, record)

RECURSIVE OrderByOrigination(_, _, _)
OrderByOrigination(rows, i, sorted) ==
    IF i > Len(rows) THEN sorted
    ELSE OrderByOrigination(rows, i + 1, InsertOrdered(sorted, rows[i]))

CurveIndex(map, provider) ==
    IF \E k \in 1..Len(map) : map[k].provider = provider
    THEN CHOOSE k \in 1..Len(map) : map[k].provider = provider
    ELSE 0

BucketIndex(curve, month) ==
    IF \E k \in 1..Len(curve) : curve[k].month = month
    THEN CHOOSE k \in 1..Len(curve) : curve[k].month = month
    ELSE 0

MaxMonths == 36

MonthsSinceRepayment(record, now) ==
    LET originDate == GetTime(record.origination_date)
        repaidDate == GetTime(record.repayment_date)
    IN  IF originDate.t = "NaN" \/ repaidDate.t = "NaN" THEN NaN
        ELSE Num((repaidDate.v - originDate.v) \div 30)
\* lines 56-58: NaN when the origination date is invalid; now is the clock
\* value new Date() returns
MonthsSince(record, now) ==
    LET originDate == GetTime(record.origination_date)
        repaidDate == IF Truthy(record.repayment_date)
                      THEN GetTime(record.repayment_date) ELSE Num(now)
    IN  IF originDate.t = "NaN" \/ repaidDate.t = "NaN" THEN NaN
        ELSE Num((repaidDate.v - originDate.v) \div 30)

Descending(set) ==
    [k \in 1..Cardinality(set) |->
        CHOOSE m \in set : Cardinality({x \in set : x > m}) = k - 1]
\* the elements of a set of numbers in increasing order
Ascending(set) ==
    [k \in 1..Cardinality(set) |->
        CHOOSE m \in set : Cardinality({x \in set : x < m}) = k - 1]

\* only the last month of a case visited
LoopMonthsLastOnly(monthsSince) ==
    IF monthsSince.t = "NaN" \/ monthsSince.v < 0 THEN {}
    ELSE {IF monthsSince.v < MaxMonths THEN monthsSince.v ELSE MaxMonths}
LoopMonthsUncapped(monthsSince) ==
    IF monthsSince.t = "NaN" THEN {} ELSE 0..monthsSince.v
\* line 66: the months for (month = 0; month <= Math.min(monthsSince, 36); month++)
\* visits; the comparison with NaN is false
LoopMonths(monthsSince) ==
    IF monthsSince.t = "NaN" THEN {}
    ELSE 0..(IF monthsSince.v < MaxMonths THEN monthsSince.v ELSE MaxMonths)

AddToMonthInFull(bucket, record, monthsSince, month) ==
    [month |-> month,
     totalInvested |-> bucket.totalInvested + OrZero(record.total_sent),
     totalRecovered |->
         IF Truthy(record.total_repaid) /\ monthsSince > 0
         THEN RAdd(bucket.totalRecovered, RInt(OrZero(record.total_repaid)))
         ELSE bucket.totalRecovered,
     caseCount |-> bucket.caseCount + 1]
\* a case repaid within its first month counted as recovered at once
AddToMonthWithinMonth(bucket, record, monthsSince, month) ==
    [month |-> month,
     totalInvested |-> bucket.totalInvested + OrZero(record.total_sent),
     totalRecovered |->
         IF Truthy(record.total_repaid) /\ monthsSince >= 0
         THEN RAdd(bucket.totalRecovered,
                   RMul(RInt(OrZero(record.total_repaid)),
                        IF monthsSince = 0 THEN RInt(1)
                        ELSE RMin(Rat(month, monthsSince), RInt(1))))
         ELSE bucket.totalRecovered,
     caseCount |-> bucket.caseCount + 1]
\* lines 75-84: what one iteration of the month loop adds to its bucket
AddToMonth(bucket, record, monthsSince, month) ==
    [month |-> month,
     totalInvested |-> bucket.totalInvested + OrZero(record.total_sent),
     totalRecovered |->
         IF Truthy(record.total_repaid) /\ monthsSince > 0
         THEN RAdd(bucket.totalRecovered,
                   RMul(RInt(OrZero(record.total_repaid)),
                        RMin(Rat(month, monthsSince), RInt(1))))
         ELSE bucket.totalRecovered,
     caseCount |-> bucket.caseCount + 1]

\* lines 66-85: the month loop as a whole. Each visited month is visited
\* once, in increasing order: a bucket it does not find is appended
\* (lines 67-73), and every visited bucket receives the record
MonthLoop(curve, record, monthsSince) ==
    LET visited == LoopMonths(monthsSince)
        present == {curve[k].month : k \in 1..Len(curve)}
        created == Ascending(visited \ present)
        c1 == curve \o [k \in 1..Len(created) |->
                           [month |-> created[k], totalInvested |-> 0,
                            totalRecovered |-> Zero, caseCount |-> 0]]
    IN  [k \in 1..Len(c1) |->
            IF c1[k].month \in visited
            THEN AddToMonth(c1[k], record, monthsSince.v, c1[k].month)
            ELSE c1[k]]

\* lines 49-86: the body of data.forEach; acc is [map, providerSet]
CurveForEachBody(acc, record, now) ==
    LET provider == record.provider_name_per_tbr IN
    IF Falsy(provider) THEN acc
    ELSE LET m1 == IF CurveIndex(acc.map, provider) = 0
                   THEN Append(acc.map, [provider |-> provider, curve |-> <<>>])
                   ELSE acc.map
             k == CurveIndex(m1, provider)
         IN  [map |-> [m1 EXCEPT ![k] =
                          [provider |-> provider,
                           curve |-> MonthLoop(m1[k].curve, record,
                                               MonthsSince(record, now))]],
              providerSet |-> acc.providerSet \cup {provider}]

RECURSIVE CurveForEach(_, _, _, _)
CurveForEach(data, i, acc, now) ==
    IF i > Len(data) THEN acc
    ELSE CurveForEach(data, i + 1, CurveForEachBody(acc, data[i], now), now)

\* lines 94-96
CurveRecoveryRate(bucket) ==
    IF bucket.totalInvested > 0
    THEN RMul(RDiv(bucket.totalRecovered, RInt(bucket.totalInvested)), RInt(100))
    ELSE Zero

RECURSIVE CurvePointsOfTotals(_, _, _, _)
CurvePointsOfTotals(provider, curve, k, cumulative) ==
    IF k > Len(curve) THEN <<>>
    ELSE LET recoveryRate == CurveRecoveryRate(curve[k])
         IN  <<[month |-> curve[k].month,
                provider |-> provider,
                recoveryRate |-> recoveryRate,
                cumulativeRecovery |-> recoveryRate,
                cases |-> curve[k].caseCount]>>
             \o CurvePointsOfTotals(provider, curve, k + 1, cumulative)
\* lines 92-107: the points of one provider, cumulative running over them
RECURSIVE CurvePoints(_, _, _, _)
CurvePoints(provider, curve, k, cumulative) ==
    IF k > Len(curve) THEN <<>>
    ELSE LET recoveryRate == CurveRecoveryRate(curve[k])
             c1 == RAdd(cumulative, recoveryRate)
         IN  <<[month |-> curve[k].month,
                provider |-> provider,
                recoveryRate |-> recoveryRate,
                cumulativeRecovery |-> c1,
                cases |-> curve[k].caseCount]>>
             \o CurvePoints(provider, curve, k + 1, c1)

\* lines 89-108
RECURSIVE CurvesOf(_, _)
CurvesOf(map, k) ==
    IF k > Len(map) THEN <<>>
    ELSE CurvePoints(map[k].provider, map[k].curve, 1, Zero) \o CurvesOf(map, k + 1)

\* the provider names the model uses, in the order Array.prototype.sort() puts them
NameOrder == <<"X", "Y">>

\* line 111: Array.from(providerSet).sort()
SortedNames(set) == SelectSeq(NameOrder, LAMBDA name : name \in set)

DefaultSelection == 5

\* lines 45-113: [curves, providers, selected]
ProcessCurves(data, now) ==
    LET acc == CurveForEach(data, 1, [map |-> <<>>, providerSet |-> {}], now)
        sorted == SortedNames(acc.providerSet)
    IN  [curves |-> CurvesOf(acc.map, 1),
         providers |-> sorted,
         selected |-> SubSeq(sorted, 1,
                             IF Len(sorted) < DefaultSelection
                             THEN Len(sorted) ELSE DefaultSelection)]

-----------------------------------------------------------------------------
(* Dashboard: the provider performance derived from fundData *)

\* src/app/page.tsx line 66: the distinct provider_name values, sorted;
\* Array.prototype.sort() puts undefined last
DashboardProviders(data) ==
    LET names == {data[i].provider_name : i \in 1..Len(data)}
    IN  SortedNames(names) \o (IF UNDEFINED \in names THEN <<UNDEFINED>> ELSE <<>>)

RECURSIVE SumColumn(_, _, _)
SumColumn(data, i, column) ==
    IF i > Len(data) THEN 0 ELSE OrZero(data[i][column]) + SumColumn(data, i + 1, column)

\* lines 82-97: the metrics of one provider
ProviderMetrics(data, provider) ==
    LET providerData == SelectSeq(data, LAMBDA f : f.provider_name = provider)
        invested == SumColumn(providerData, 1, "total_invested")
        current == SumColumn(providerData, 1, "total_balance_today")
    IN  [provider |-> provider,
         investments |-> Len(providerData),
         invested |-> invested,
         current |-> current,
         multiple |-> IF invested > 0 THEN Rat(current, invested) ELSE Zero]

\* line 98: sort((a, b) => b.invested - a.invested), a stable sort
RECURSIVE InsertByInvested(_, _)
InsertByInvested(sorted, entry) ==
    IF sorted = <<>> THEN <<entry>>
    ELSE IF sorted[Len(sorted)].invested < entry.invested
         THEN Append(InsertByInvested(SubSeq(sorted, 1, Len(sorted) - 1), entry),
                     sorted[Len(sorted)])
         ELSE Append(sorted, entry)

RECURSIVE SortByInvested(_, _, _)
SortByInvested(entries, i, sorted) ==
    IF i > Len(entries) THEN sorted
    ELSE SortByInvested(entries, i + 1, InsertByInvested(sorted, entries[i]))

TopProviders == 10

\* lines 81-98
ProviderPerformance(data) ==
    LET names == DashboardProviders(data)
        entries == [k \in 1..Len(names) |-> ProviderMetrics(data, names[k])]
        sorted == SortByInvested(entries, 1, <<>>)
    IN  SubSeq(sorted, 1, IF Len(sorted) < TopProviders THEN Len(sorted) ELSE TopProviders)

-----------------------------------------------------------------------------
(* Rows of fund_data *)

\* days from 1970-01-01 to the civil date y-m-d
DaysFromCivil(y, m, d) ==
    LET y1 == IF m <= 2 THEN y - 1 ELSE y
        era == y1 \div 400
        yoe == y1 - era * 400
        mp == IF m > 2 THEN m - 3 ELSE m + 9
        doy == (153 * mp + 2) \div 5 + d - 1
        doe == yoe * 365 + yoe \div 4 - yoe \div 100 + doy
    IN  era * 146097 + doe - 719468

Date(y, m, d) == DateStr(DaysFromCivil(y, m, d))

\* a row with the columns the providers, analytics and curves pages read; the
\* columns the dashboard reads are absent from it
Row(provider, sent, repaidAmount, status, repaidFlag, origination, repayment) ==
    [provider_name_per_tbr |-> provider,
     total_sent |-> sent,
     total_repaid |-> repaidAmount,
     case_status |-> status,
     repaid |-> repaidFlag,
     origination_date |-> origination,
     repayment_date |-> repayment,
     provider_name |-> UNDEFINED,
     total_invested |-> Undefined,
     total_balance_today |-> Undefined]

\* the row with the columns the dashboard reads filled in
Funded(row, name, invested, balance) ==
    [row EXCEPT !.provider_name = name,
                !.total_invested = invested,
                !.total_balance_today = balance]

\* sequences over pool of length 0..n
RowLists(pool, n) == UNION {[1..k -> pool] : k \in 0..n}

MaxRecords == 2

\* rows of every shape the pages handle: complete, ongoing, over-repaid,
\* without a provider, with missing amounts, status and dates
Pool ==
    { Funded(Row("X", Num(1000), Num(500), "closed", Bool(TRUE),
                 Date(2024, 1, 1), Date(2024, 10, 27)),
             "X", Num(1000), Num(1500)),
      Row("X", Num(500), Num(500), "Pending", Null, Date(2024, 2, 1), Null),
      Row("Y", Num(1000), Num(1500), "closed", Bool(TRUE), Date(2024, 1, 15), Date(2024, 2, 14)),
      Row("", Num(1000), Num(500), "closed", Bool(TRUE), Date(2024, 1, 1), Date(2024, 10, 27)),
      Row(NULL, Num(500), Num(500), "Pending", Null, Date(2024, 2, 1), Null),
      Row("X", Null, Null, NULL, Null, Null, Null),
      Row("Y", Num(1000), Num(500), "closed", Bool(TRUE), EmptyStr, EmptyStr),
      Funded(Row("Y", Num(0), Num(500), "closed", Bool(FALSE),
                 Date(2024, 1, 20), Date(2025, 6, 1)),
             "Y", Num(0), Num(500)),
      Row("X", Num(500), Num(500), "pending", Bool(FALSE), Date(2024, 3, 1), Date(2024, 2, 20)),
      Row("Y", Num(1000), Null, "Pending", Null, Undefined, Null) }

\* rows of one month whose scores fall on and beside the grade bounds: sent
\* 1000 with repaid from nothing to more than was sent, repaid the day of
\* the origination, after 300 days, before the origination, or not yet
ScorePool ==
    { Row(provider, Num(1000), Num(repaidAmount), "closed", Bool(TRUE),
          Date(2024, 1, 1), repayment) :
        provider \in {"X", "Y"},
        repaidAmount \in {0, 799, 800, 1199, 1200},
        repayment \in {Date(2024, 1, 1), Date(2024, 10, 27), Date(2023, 12, 22), Null} }
    \cup
    \* and a case of the next month repaid three times over
    { Row(provider, Num(100), Num(300), "closed", Bool(TRUE), Date(2024, 2, 1), Null) :
        provider \in {"X", "Y"} }

\* cases of every length the month loop meets: ten months, two months, four
\* years, still open, repaid before the origination, repaid within the
\* month, without amounts, and without a usable origination date
CurvePool ==
    { Row("X", Num(100), Num(50), "closed", Bool(TRUE), Date(2024, 1, 1), Date(2024, 10, 27)),
      Row("Y", Num(100), Num(50), "closed", Bool(TRUE), Date(2024, 1, 1), Date(2024, 10, 27)),
      Row("X", Num(100), Num(50), "closed", Bool(TRUE), Date(2024, 3, 1), Date(2024, 5, 5)),
      Row("X", Num(200), Num(300), "closed", Bool(TRUE), Date(2020, 1, 1), Date(2024, 1, 1)),
      Row("X", Num(100), Num(50), "Pending", Null, Date(2024, 6, 1), Null),
      Row("X", Num(100), Num(50), "closed", Bool(TRUE), Date(2024, 3, 1), Date(2024, 2, 20)),
      Row("Y", Num(100), Num(50), "closed", Bool(TRUE), Date(2024, 3, 1), Date(2024, 3, 11)),
      Row("Y", Null, Null, "closed", Bool(TRUE), Date(2024, 2, 1), Date(2024, 4, 5)),
      Row("X", Num(100), Num(50), "closed", Bool(TRUE), Null, Date(2024, 4, 5)),
      Row("Y", Num(100), Num(50), "closed", Bool(TRUE), Undefined, Null) }

\* the values new Date() may return
Clock == {DaysFromCivil(2024, 11, 1), DaysFromCivil(2025, 1, 15)}

TimeFrames == {"30", "90", "180", "365"}
Pages == {"dashboard", "providers", "analytics", "curves"}

NoRun == [page |-> "none", now |-> 0, out |-> <<>>, repeat |-> FALSE]

-----------------------------------------------------------------------------
(* The pages *)

InitPages ==
    /\ page = "none"
    /\ loading = FALSE
    /\ error = NULL
    /\ inflight = 0
    /\ outcome = "none"
    /\ fundData = <<>>
    /\ providers = <<>>
    /\ analyticsData = <<>>
    /\ timeFrame = "90"
    /\ curveData = <<>>
    /\ curveProviders = <<>>
    /\ selectedProviders = <<>>
    /\ nowRead = 0
    /\ last = NoRun

\* uploadStats before any upload has finished (null)
NoStats == [total |-> -1, success |-> 0, failed |-> 0]

InitAdmin ==
    /\ selectedFile = -1
    /\ uploading = FALSE
    /\ uploadProgress = Zero
    /\ message = NULL
    /\ uploadStats = NoStats
    /\ runs = <<>>

\* the client is null only when the environment lacks its settings; no row
\* is ever read then
InitData(pool) ==
    \/ supabase = TRUE /\ db \in RowLists(pool, MaxRecords)
    \/ supabase = FALSE /\ db = <<>>

Init == InitData(Pool) /\ InitPages /\ InitAdmin

\* the part of a fetch before its await: setLoading(true), then either the
\* query is issued or the missing client makes the function throw, which
\* its catch and finally handle in the same turn
StartFetch(p, err) ==
    IF supabase
    THEN /\ loading' = TRUE
         /\ inflight' = inflight + 1
         /\ error' = err
         /\ outcome' = outcome
    ELSE /\ loading' = FALSE
         /\ inflight' = inflight
         /\ error' = IF p = "dashboard" THEN "TypeError" ELSE err
         /\ outcome' = "not_initialized"

\* a page is mounted: its state takes the useState defaults and its effect
\* starts the fetch. A fetch the component mounted before it left pending
\* settles into an unmounted component, sets no state and is counted no more
Mount(p) ==
    /\ page' = p
    /\ fundData' = <<>>
    /\ providers' = <<>>
    /\ analyticsData' = <<>>
    /\ timeFrame' = "90"
    /\ curveData' = <<>>
    /\ curveProviders' = <<>>
    /\ selectedProviders' = <<>>
    /\ nowRead' = 0
    /\ IF supabase
       THEN /\ loading' = TRUE
            /\ inflight' = 1
            /\ error' = NULL
            /\ outcome' = "none"
       ELSE /\ loading' = FALSE
            /\ inflight' = 0
            /\ error' = IF p = "dashboard" THEN "TypeError" ELSE NULL
            /\ outcome' = "not_initialized"
    /\ UNCHANGED <<supabase, db, adminVars>>

\* the query of a pending fetch returns an error: the catch block, then finally
QueryFails ==
    /\ inflight > 0
    /\ inflight' = inflight - 1
    /\ outcome' = "query_error"
    /\ error' = IF page = "dashboard" THEN "query failed" ELSE error
    /\ loading' = FALSE
    /\ UNCHANGED <<page, fundData, providers, analyticsData, timeFrame, curveData,
                   curveProviders, selectedProviders, nowRead>>
    /\ UNCHANGED <<supabase, db, adminVars>>

\* src/app/page.tsx lines 39-47: setFundData(data || []), the rows as the query
\* returned them
DashboardResolve ==
    /\ page = "dashboard"
    /\ inflight > 0
    /\ inflight' = inflight - 1
    /\ fundData' = db
    /\ outcome' = "ok"
    /\ loading' = FALSE
    /\ UNCHANGED <<page, error, providers, analyticsData, timeFrame, curveData,
                   curveProviders, selectedProviders, nowRead>>
    /\ UNCHANGED <<supabase, db, adminVars>>

\* src/app/providers/page.tsx lines 44-93
ProvidersResolve ==
    /\ page = "providers"
    /\ inflight > 0
    /\ inflight' = inflight - 1
    /\ providers' = ProcessProviders(db)
    /\ outcome' = "ok"
    /\ loading' = FALSE
    /\ UNCHANGED <<page, error, fundData, analyticsData, timeFrame, curveData,
                   curveProviders, selectedProviders, nowRead>>
    /\ UNCHANGED <<supabase, db, adminVars>>

AppendAnalyticsData(prev, processed) == prev \o processed
\* line 153: setAnalyticsData(processedAnalytics)
SetAnalyticsData(prev, processed) == processed

\* an analytics fetch whose processing throws skips the reset of loading
AnalyticsResolveNoFinally ==
    /\ page = "analytics"
    /\ inflight > 0
    /\ inflight' = inflight - 1
    /\ LET r == ProcessAnalytics(db) IN
       IF r.threw
       THEN /\ outcome' = "exception"
            /\ analyticsData' = analyticsData
            /\ loading' = loading
       ELSE /\ outcome' = "ok"
            /\ analyticsData' = SetAnalyticsData(analyticsData, r.out)
            /\ loading' = FALSE
    /\ UNCHANGED <<page, error, fundData, providers, timeFrame, curveData,
                   curveProviders, selectedProviders, nowRead>>
    /\ UNCHANGED <<supabase, db, adminVars>>

\* src/app/analytics/page.tsx lines 45-158
AnalyticsResolve ==
    /\ page = "analytics"
    /\ inflight > 0
    /\ inflight' = inflight - 1
    /\ LET r == ProcessAnalytics(db) IN
       IF r.threw
       THEN /\ outcome' = "exception"
            /\ analyticsData' = analyticsData
       ELSE /\ outcome' = "ok"
            /\ analyticsData' = SetAnalyticsData(analyticsData, r.out)
    /\ loading' = FALSE
    /\ UNCHANGED <<page, error, fundData, providers, timeFrame, curveData,
                   curveProviders, selectedProviders, nowRead>>
    /\ UNCHANGED <<supabase, db, adminVars>>

\* src/unnamed/part_002 lines 43-119
CurvesResolve ==
    /\ page = "curves"
    /\ inflight > 0
    /\ inflight' = inflight - 1
    /\ \E now \in Clock :
         LET r == ProcessCurves(OrderByOrigination(db, 1, <<>>), now) IN
         /\ curveData' = r.curves
         /\ curveProviders' = r.providers
         /\ selectedProviders' = r.selected
         /\ nowRead' = now
    /\ outcome' = "ok"
    /\ loading' = FALSE
    /\ UNCHANGED <<page, error, fundData, providers, analyticsData, timeFrame>>
    /\ UNCHANGED <<supabase, db, adminVars>>

ErrorShownWhileLoading == page = "dashboard" /\ error # NULL
\* src/app/page.tsx lines 111-126: the error screen, with its Retry button
ErrorShown == page = "dashboard" /\ ~loading /\ error # NULL

\* the Retry button calls fetchData
Retry ==
    /\ ErrorShown
    /\ StartFetch("dashboard", error)
    /\ UNCHANGED <<page, fundData, providers, analyticsData, timeFrame, curveData,
                   curveProviders, selectedProviders, nowRead>>
    /\ UNCHANGED <<supabase, db, adminVars>>

\* src/app/analytics/page.tsx lines 29-31, 209-218, 242-251: the time-frame
\* select is rendered when loading is false; a new value re-runs the effect
ChangeTimeFrame ==
    /\ page = "analytics"
    /\ ~loading
    /\ \E tf \in TimeFrames \ {timeFrame} : timeFrame' = tf
    /\ StartFetch("analytics", error)
    /\ UNCHANGED <<page, fundData, providers, analyticsData, curveData,
                   curveProviders, selectedProviders, nowRead>>
    /\ UNCHANGED <<supabase, db, adminVars>>

Next ==
    \/ \E p \in Pages : Mount(p) /\ UNCHANGED last
    \/ QueryFails /\ UNCHANGED last
    \/ DashboardResolve /\ UNCHANGED last
    \/ ProvidersResolve /\ UNCHANGED last
    \/ AnalyticsResolve /\ UNCHANGED last
    \/ CurvesResolve /\ UNCHANGED last
    \/ Retry /\ UNCHANGED last
    \/ ChangeTimeFrame /\ UNCHANGED last

Spec == Init /\ [][Next]_vars

-----------------------------------------------------------------------------
(* Admin page: handleFileSelect and handleUpload *)

\* the numbers of non-blank lines (header included) of the files that are selected
FileLines == {0, 1, 2, 151}

MaxUploads == 2

batchSize == 100

\* src/app/admin/page.tsx lines 14-19
SelectFile ==
    /\ \E k \in FileLines : selectedFile' = k
    /\ message' = "info"
    /\ UNCHANGED <<uploading, uploadProgress, uploadStats, runs>>
    /\ UNCHANGED <<supabase, db, pageVars, last>>

\* lines 41-55 and 130-137, the click on Upload (lines 312-318: enabled when
\* a file is selected and uploading is false). The handler sets uploading,
\* starts the reader and runs its finally block before it returns, so the
\* render after it sees uploading false again. The progress field of a run
\* lists the values the run has passed to setUploadProgress, in order
HandleUpload ==
    /\ selectedFile # -1
    /\ ~uploading
    /\ Len(runs) < MaxUploads
    /\ IF ~supabase
       THEN /\ message' = "error"
            /\ UNCHANGED <<uploading, uploadProgress, runs>>
       ELSE /\ uploading' = FALSE
            /\ uploadProgress' = Zero
            /\ message' = "info"
            /\ runs' = Append(runs, [pc |-> "reading", lines |-> selectedFile, n |-> 0,
                                     i |-> 0, successCount |-> 0, failCount |-> 0,
                                     attempts |-> <<>>, progress |-> <<Zero>>])
    /\ UNCHANGED <<selectedFile, uploadStats>>
    /\ UNCHANGED <<supabase, db, pageVars, last>>

\* an upload that reports success whatever it counted
FinishUploadAsSuccess(run) ==
    /\ uploadProgress' = RInt(100)
    /\ uploadStats' = [total |-> run.n, success |-> run.successCount,
                       failed |-> run.failCount]
    /\ message' = "success"

\* lines 109-122: after the loop
FinishUpload(run) ==
    /\ uploadProgress' = RInt(100)
    /\ uploadStats' = [total |-> run.n, success |-> run.successCount,
                       failed |-> run.failCount]
    /\ message' = IF run.failCount = 0 THEN "success" ELSE "error"

\* lines 60-92: reader.onload up to the first await. With no line at all
\* lines[0] is undefined and its split throws, which the catch of line 124
\* reports
ReaderOnload(r) ==
    /\ runs[r].pc = "reading"
    /\ IF runs[r].lines = 0
       THEN /\ runs' = [runs EXCEPT ![r].pc = "failed"]
            /\ message' = "error"
            /\ UNCHANGED <<uploadProgress, uploadStats>>
       ELSE LET n == runs[r].lines - 1 IN
            IF 0 < n
            THEN /\ runs' = [runs EXCEPT ![r].pc = "awaiting", ![r].n = n,
                                         ![r].progress = @ \o <<RInt(10), RInt(30)>>]
                 /\ uploadProgress' = RInt(30)
                 /\ message' = "info"
                 /\ UNCHANGED uploadStats
            ELSE /\ runs' = [runs EXCEPT ![r].pc = "done", ![r].n = n,
                                         ![r].progress =
                                             @ \o <<RInt(10), RInt(30), RInt(100)>>]
                 /\ FinishUpload([runs[r] EXCEPT !.n = n])
    /\ UNCHANGED <<selectedFile, uploading>>
    /\ UNCHANGED <<supabase, db, pageVars, last>>

SliceToBatchSize(n, i) ==
    LET end == IF batchSize < n THEN batchSize ELSE n
    IN  IF i < end THEN end - i ELSE 0
\* line 87: records.slice(i, i + batchSize).length
BatchLength(n, i) == IF i + batchSize < n THEN batchSize ELSE n - i

\* lines 89-107: the upsert of the batch at i settles (ok, an error result,
\* or a rejection), the counts and the progress are updated, and the loop
\* either issues the next upsert or ends
BatchSettles(r, result) ==
    /\ runs[r].pc = "awaiting"
    /\ LET run == runs[r]
           len == BatchLength(run.n, run.i)
           progress == RAdd(RInt(30), RMul(Rat(run.i + len, run.n), RInt(60)))
           counted == [run EXCEPT
                          !.successCount = IF result = "ok" THEN @ + len ELSE @,
                          !.failCount = IF result = "ok" THEN @ ELSE @ + len,
                          !.attempts = Append(@, [start |-> run.i, size |-> len,
                                                  result |-> result]),
                          !.i = @ + batchSize,
                          !.progress = Append(@, RMin(progress, RInt(90)))]
       IN  IF counted.i < run.n
           THEN /\ runs' = [runs EXCEPT ![r] = counted]
                /\ uploadProgress' = RMin(progress, RInt(90))
                /\ UNCHANGED <<message, uploadStats>>
           ELSE /\ runs' = [runs EXCEPT ![r] = [counted EXCEPT
                                                   !.pc = "done",
                                                   !.progress = Append(@, RInt(100))]]
                /\ FinishUpload(counted)
    /\ UNCHANGED <<selectedFile, uploading>>
    /\ UNCHANGED <<supabase, db, pageVars, last>>

InitUpload ==
    /\ supabase \in BOOLEAN
    /\ db = <<>>
    /\ InitPages
    /\ InitAdmin

NextUpload ==
    \/ SelectFile
    \/ HandleUpload
    \/ \E r \in 1..Len(runs) : ReaderOnload(r)
    \/ \E r \in 1..Len(runs), result \in {"ok", "error", "throw"} : BatchSettles(r, result)

SpecUpload == InitUpload /\ [][NextUpload]_vars

\* the run a successful pipeline invocation leaves behind for comparison
\* with the next one
Ran(p, now, out) ==
    [page |-> p, now |-> now, out |-> out,
     repeat |-> last.page = p /\ last.now = now]

NextRerun ==
    \/ \E p \in {"providers", "analytics", "curves"} : Mount(p) /\ UNCHANGED last
    \/ ProvidersResolve /\ last' = Ran("providers", 0, providers')
    \/ AnalyticsResolve
         /\ last' = IF outcome' = "ok" THEN Ran("analytics", 0, analyticsData') ELSE last
    \/ CurvesResolve
         /\ last' = Ran("curves", nowRead', <<curveData', curveProviders', selectedProviders'>>)
    \/ ChangeTimeFrame /\ UNCHANGED last

SpecRerun == Init /\ [][NextRerun]_vars

\* the analytics page alone, over the rows of ScorePool
NextScore ==
    \/ Mount("analytics") /\ UNCHANGED last
    \/ AnalyticsResolve /\ UNCHANGED last

InitScore == InitData(ScorePool) /\ InitPages /\ InitAdmin

SpecScore == InitScore /\ [][NextScore]_vars

\* the curves page alone, over the rows of CurvePool
NextCurves ==
    \/ Mount("curves") /\ UNCHANGED last
    \/ CurvesResolve /\ UNCHANGED last

InitCurves == InitData(CurvePool) /\ InitPages /\ InitAdmin

SpecCurves == InitCurves /\ [][NextCurves]_vars

\* the cases whose length decides the buckets: four years, two months, ten
\* months, still open, repaid before the origination, repaid in full within
\* the month, and counted from the epoch
BucketPool ==
    { Row("X", Num(200), Num(300), "closed", Bool(TRUE), Date(2020, 1, 1), Date(2024, 1, 1)),
      Row("X", Num(100), Num(50), "closed", Bool(TRUE), Date(2024, 3, 1), Date(2024, 5, 5)),
      Row("Y", Num(100), Num(50), "closed", Bool(TRUE), Date(2024, 1, 1), Date(2024, 10, 27)),
      Row("X", Num(100), Num(50), "Pending", Null, Date(2024, 6, 1), Null),
      Row("X", Num(100), Num(50), "closed", Bool(TRUE), Date(2024, 3, 1), Date(2024, 2, 20)),
      Row("Y", Num(100), Num(100), "closed", Bool(TRUE), Date(2024, 3, 1), Date(2024, 3, 11)),
      Row("X", Num(100), Num(50), "closed", Bool(TRUE), Null, Date(2024, 4, 5)) }

InitBuckets == InitData(BucketPool) /\ InitPages /\ InitAdmin

\* the curves page alone, over the rows of BucketPool
SpecBuckets == InitBuckets /\ [][NextCurves]_vars

-----------------------------------------------------------------------------
(* What the rows say, computed row by row *)

WithProvider(data) == {i \in 1..Len(data) : ~Falsy(data[i].provider_name_per_tbr)}
RowsOf(data, name) == {i \in 1..Len(data) : data[i].provider_name_per_tbr = name}
KeepProvided(data) == SelectSeq(data, LAMBDA r : ~Falsy(r.provider_name_per_tbr))

RECURSIVE SumRows(_, _, _)
SumRows(data, rows, field) ==
    IF rows = {} THEN 0
    ELSE LET i == CHOOSE i \in rows : TRUE
         IN  OrZero(data[i][field]) + SumRows(data, rows \ {i}, field)

RECURSIVE SumBuckets(_, _, _)
SumBuckets(buckets, k, field) ==
    IF k > Len(buckets) THEN 0 ELSE buckets[k][field] + SumBuckets(buckets, k + 1, field)

ProvidersDone == page = "providers" /\ ~loading /\ outcome = "ok"
AnalyticsDone == page = "analytics" /\ ~loading /\ outcome = "ok"
CurvesDone == page = "curves" /\ ~loading /\ outcome = "ok"

Between(lo, x, hi) == RLe(RInt(lo), x) /\ RLe(x, RInt(hi))

-----------------------------------------------------------------------------
(* Claims *)

\* C1: after the providers-page aggregation the total_sent of all provider
\* buckets sums to the amount sent (a missing amount counting 0) of exactly
\* the fetched rows that have a provider.
C1_TotalSentConserved ==
    ProvidersDone =>
        SumBuckets(providers, 1, "total_sent")
            = SumRows(db, WithProvider(db), "total_sent")

C1_Witness ==
    /\ ProvidersDone
    /\ Len(providers) = 1
    /\ \E i \in 1..Len(db) :
         Falsy(db[i].provider_name_per_tbr) /\ GreaterThanZero(db[i].total_sent)
    /\ SumBuckets(providers, 1, "total_sent") > 0

\* C2: each bucket's total_sent, total_repaid and case_count are the sum and
\* the count over exactly the rows of its provider, there is one bucket per
\* provider, and the case_counts sum to the number of rows with a provider;
\* the analytics volume of a provider is the same sum.
C2_BucketsMatchRows ==
    /\ ProvidersDone =>
        /\ \A k \in 1..Len(providers) :
             LET rows == RowsOf(db, providers[k].provider_name_per_tbr) IN
             /\ providers[k].total_sent = SumRows(db, rows, "total_sent")
             /\ providers[k].total_repaid = SumRows(db, rows, "total_repaid")
             /\ providers[k].case_count = Cardinality(rows)
        /\ \A j, k \in 1..Len(providers) :
             providers[j].provider_name_per_tbr = providers[k].provider_name_per_tbr => j = k
        /\ \A i \in WithProvider(db) :
             \E k \in 1..Len(providers) :
                 providers[k].provider_name_per_tbr = db[i].provider_name_per_tbr
        /\ SumBuckets(providers, 1, "case_count") = Cardinality(WithProvider(db))
    /\ AnalyticsDone =>
        /\ \A k \in 1..Len(analyticsData) :
             analyticsData[k].volume
                 = SumRows(db, RowsOf(db, analyticsData[k].provider), "total_sent")
        /\ \A j, k \in 1..Len(analyticsData) :
             analyticsData[j].provider = analyticsData[k].provider => j = k

C2_Witness ==
    /\ ProvidersDone
    /\ Len(providers) = 1
    /\ providers[1].case_count = 2
    /\ providers[1].total_sent = 1500

\* C3: a row without a provider (null, undefined or empty) is skipped by the
\* providers, analytics and curves aggregations: the result is the one the
\* rows with a provider alone give, and no entry carries a missing provider.
C3_RowsWithoutProviderSkipped ==
    /\ ProvidersDone =>
        /\ providers = ProcessProviders(KeepProvided(db))
        /\ \A k \in 1..Len(providers) : ~Falsy(providers[k].provider_name_per_tbr)
    /\ AnalyticsDone =>
        /\ analyticsData = ProcessAnalytics(KeepProvided(db)).out
        /\ \A k \in 1..Len(analyticsData) : ~Falsy(analyticsData[k].provider)
    /\ CurvesDone =>
        LET r == ProcessCurves(OrderByOrigination(KeepProvided(db), 1, <<>>), nowRead) IN
        /\ curveData = r.curves
        /\ curveProviders = r.providers
        /\ \A k \in 1..Len(curveProviders) : ~Falsy(curveProviders[k])
        /\ \A k \in 1..Len(curveData) : ~Falsy(curveData[k].provider)

C3_Witness ==
    /\ ProvidersDone
    /\ Len(db) = 2
    /\ Falsy(db[1].provider_name_per_tbr)
    /\ ~Falsy(db[2].provider_name_per_tbr)
    /\ Len(providers) = 1

\* C4 as stated: rows [X, 1000, 500, "closed"] and [X, 500, 500, "pending"]
\* aggregate to total_sent 1500, total_repaid 1000, case_count 2,
\* pending_cases 1 and closed_cases 1.
C4_Original ==
    ( /\ ProvidersDone
      /\ Len(db) = 2
      /\ \A i \in 1..2 : db[i].provider_name_per_tbr = "X"
      /\ db[1].total_sent = Num(1000) /\ db[1].total_repaid = Num(500)
      /\ db[1].case_status = "closed"
      /\ db[2].total_sent = Num(500) /\ db[2].total_repaid = Num(500)
      /\ db[2].case_status = "pending" )
    => /\ Len(providers) = 1
       /\ providers[1].total_sent = 1500
       /\ providers[1].total_repaid = 1000
       /\ providers[1].case_count = 2
       /\ providers[1].pending_cases = 1
       /\ providers[1].closed_cases = 1

\* C4, amended: a row counts as pending when its case_status is exactly
\* 'Pending' and otherwise as closed when its repaid flag is truthy, whatever
\* its status says; so [X, 1000, 500, "closed", repaid true] and
\* [X, 500, 500, "Pending"] aggregate to 1500, 1000, 2, 1 and 1.
C4_PendingAndClosedCounts ==
    ProvidersDone =>
        /\ \A k \in 1..Len(providers) :
             LET rows == RowsOf(db, providers[k].provider_name_per_tbr) IN
             /\ providers[k].pending_cases
                  = Cardinality({i \in rows : db[i].case_status = "Pending"})
             /\ providers[k].closed_cases
                  = Cardinality({i \in rows : db[i].case_status # "Pending"
                                              /\ Truthy(db[i].repaid)})
        /\ ( /\ Len(db) = 2
             /\ \A i \in 1..2 : db[i].provider_name_per_tbr = "X"
             /\ db[1].total_sent = Num(1000) /\ db[1].total_repaid = Num(500)
             /\ db[1].case_status = "closed" /\ db[1].repaid = Bool(TRUE)
             /\ db[2].total_sent = Num(500) /\ db[2].total_repaid = Num(500)
             /\ db[2].case_status = "Pending" )
           => /\ Len(providers) = 1
              /\ providers[1].total_sent = 1500
              /\ providers[1].total_repaid = 1000
              /\ providers[1].case_count = 2
              /\ providers[1].pending_cases = 1
              /\ providers[1].closed_cases = 1

C4_Witness ==
    /\ ProvidersDone
    /\ Len(db) = 2
    /\ db[1].case_status = "closed" /\ db[1].repaid = Bool(TRUE)
    /\ db[1].total_sent = Num(1000)
    /\ db[2].case_status = "Pending" /\ db[2].total_sent = Num(500)
    /\ Len(providers) = 1
    /\ providers[1].pending_cases = 1
    /\ providers[1].closed_cases = 1

\* C5: a row with a provider and a missing amount or date never makes the
\* aggregation, scoring or curve computation raise: once the query has
\* succeeded the run ends normally and every provider of the rows has its
\* result.
C5_MissingFieldsNeverRaise ==
    /\ outcome # "exception"
    /\ AnalyticsDone =>
         \A i \in WithProvider(db) :
             \E k \in 1..Len(analyticsData) :
                 analyticsData[k].provider = db[i].provider_name_per_tbr
    /\ CurvesDone =>
         \A i \in WithProvider(db) :
             \E k \in 1..Len(curveProviders) :
                 curveProviders[k] = db[i].provider_name_per_tbr

\* C6: on every page that fetches rows a failed query leaves the page on a
\* visible error state with a Retry action.
C6_FailureShowsErrorWithRetry ==
    (page \in Pages /\ ~loading /\ outcome = "query_error") => ErrorShown

\* the number of batches of at most batchSize that n records make
BatchCount(n) == (n + batchSize - 1) \div batchSize

RECURSIVE SumSizes(_, _, _)
SumSizes(attempts, k, ok) ==
    IF k > Len(attempts) THEN 0
    ELSE (IF (attempts[k].result = "ok") = ok THEN attempts[k].size ELSE 0)
         + SumSizes(attempts, k + 1, ok)

\* C7: the upload sends the records in consecutive batches of at most 100,
\* each once and in order; a batch that fails is counted as failed and the
\* later batches are still sent; at the end of the loop success + failed is
\* the number of records.
C7_BatchesCountedAndContinued ==
    \A r \in 1..Len(runs) :
        LET run == runs[r] IN
        /\ \A k \in 1..Len(run.attempts) :
             /\ run.attempts[k].start = (k - 1) * 100
             /\ run.attempts[k].size >= 1
             /\ run.attempts[k].size <= 100
             /\ run.attempts[k].start + run.attempts[k].size
                  = (IF k * 100 < run.n THEN k * 100 ELSE run.n)
        /\ run.successCount = SumSizes(run.attempts, 1, TRUE)
        /\ run.failCount = SumSizes(run.attempts, 1, FALSE)
        /\ run.pc = "awaiting" => Len(run.attempts) < BatchCount(run.n)
        /\ run.pc = "done" =>
             /\ Len(run.attempts) = BatchCount(run.n)
             /\ run.successCount + run.failCount = run.n

C7_Witness ==
    \E r, q \in 1..Len(runs) :
        /\ runs[r].pc = "done"
        /\ runs[r].n = 150
        /\ Len(runs[r].attempts) = 2
        /\ runs[r].attempts[1].result = "throw"
        /\ runs[r].attempts[2].result = "ok"
        /\ runs[r].attempts[2].size = 50
        /\ runs[r].failCount = 100
        /\ runs[r].successCount = 50
        /\ uploadStats = [total |-> 150, success |-> 50, failed |-> 100]
        /\ runs[q].pc = "done"
        /\ Len(runs[q].attempts) = 2
        /\ runs[q].attempts[1].result = "error"

\* C8 as stated: two successive runs of the pipeline of a page over the same
\* rows give the same output, whenever they happen.
C8_Original ==
    [][last'.page = last.page => last'.out = last.out]_vars

\* C8, amended: two successive runs of the pipeline of a page over the same
\* rows give the same output when the clock reads the same; nothing of the
\* earlier run is carried into the later one. The curves of a row without a
\* repayment date depend on the clock.
C8_SameOutputAtSameClock ==
    [][(last'.page = last.page /\ last'.now = last.now) => last'.out = last.out]_vars

C8_Witness ==
    /\ last.repeat
    /\ last.page = "curves"
    /\ CurvesDone
    /\ Len(curveData) > 0
    /\ \E i \in 1..Len(db) :
         ~Falsy(db[i].provider_name_per_tbr) /\ ~Truthy(db[i].repayment_date)
                                             /\ Truthy(db[i].origination_date)

\* the rates the scores of a provider are computed from, row by row
RowRecoveryRate(name) ==
    IF SumRows(db, RowsOf(db, name), "total_sent") > 0
    THEN Rat(SumRows(db, RowsOf(db, name), "total_repaid"),
             SumRows(db, RowsOf(db, name), "total_sent"))
    ELSE Zero

TimedRows(name) ==
    {i \in RowsOf(db, name) :
        Truthy(db[i].origination_date) /\ Truthy(db[i].repayment_date)}

RECURSIVE SumDays(_)
SumDays(rows) ==
    IF rows = {} THEN 0
    ELSE LET i == CHOOSE i \in rows : TRUE
         IN  (db[i].repayment_date.v - db[i].origination_date.v) + SumDays(rows \ {i})

RowAvgRecoveryDays(name) ==
    IF TimedRows(name) = {} THEN RInt(365)
    ELSE Rat(SumDays(TimedRows(name)), Cardinality(TimedRows(name)))

\* C9: riskScore = (1 - recoveryRate)*50 + min(avgRecoveryDays/365, 1)*50
\* clamped into [0, 100], also when recoveryRate exceeds 1 and when the
\* average duration is negative or longer than a year.
C9_RiskScoreClamped ==
    AnalyticsDone =>
        \A k \in 1..Len(analyticsData) :
            LET name == analyticsData[k].provider
                raw == RAdd(RMul(RSub(RInt(1), RowRecoveryRate(name)), RInt(50)),
                            RMul(RMin(RDiv(RowAvgRecoveryDays(name), RInt(365)), RInt(1)),
                                 RInt(50)))
            IN  /\ Between(0, analyticsData[k].riskScore, 100)
                /\ analyticsData[k].riskScore
                     = (IF RLt(raw, Zero) THEN Zero
                        ELSE IF RLt(RInt(100), raw) THEN RInt(100) ELSE raw)

C9_Witness ==
    /\ AnalyticsDone
    /\ \E k \in 1..Len(analyticsData) :
         /\ RLt(RInt(1), RowRecoveryRate(analyticsData[k].provider))
         /\ analyticsData[k].riskScore = Zero
    /\ \E k \in 1..Len(analyticsData) :
         RLt(RowAvgRecoveryDays(analyticsData[k].provider), Zero)

\* C10: with non-negative amounts performanceScore lies in [0, 100].
C10_PerformanceScoreInRange ==
    AnalyticsDone =>
        \A k \in 1..Len(analyticsData) :
            Between(0, analyticsData[k].performanceScore, 100)

C10_Witness ==
    /\ AnalyticsDone
    /\ \E k \in 1..Len(analyticsData) :
         /\ analyticsData[k].performanceScore = RInt(100)
         /\ RLt(RInt(1), RowRecoveryRate(analyticsData[k].provider))

\* the whole tens in a score, rounded down
Tens(score) == score.n \div (score.d * 10)

\* the place of a grade, best first
GradeRank(grade) ==
    CHOOSE k \in 1..6 : <<"A", "B", "C", "D", "E", "F">>[k] = grade

\* C11: the grade is decided by performanceScore alone, top-down with closed
\* lower bounds: 90 and more is A, 80 and more B, 70 and more C, 60 and more
\* D, 50 and more E, anything lower F; exactly 90 is A and exactly 50 is E,
\* and of two providers the one with the higher score never has the worse
\* grade.
C11_GradeBands ==
    AnalyticsDone =>
        /\ \A k \in 1..Len(analyticsData) :
             LET score == analyticsData[k].performanceScore
                 grade == analyticsData[k].investmentGrade
             IN  /\ grade \in {"A", "B", "C", "D", "E", "F"}
                 /\ grade = (CASE Tens(score) >= 9 -> "A"
                               [] Tens(score) = 8 -> "B"
                               [] Tens(score) = 7 -> "C"
                               [] Tens(score) = 6 -> "D"
                               [] Tens(score) = 5 -> "E"
                               [] OTHER -> "F")
                 /\ score = RInt(90) => grade = "A"
                 /\ score = RInt(50) => grade = "E"
        /\ \A j, k \in 1..Len(analyticsData) :
             RLe(analyticsData[j].performanceScore, analyticsData[k].performanceScore)
                 => GradeRank(analyticsData[k].investmentGrade)
                      <= GradeRank(analyticsData[j].investmentGrade)

C11_Witness ==
    /\ AnalyticsDone
    /\ Len(analyticsData) = 2
    /\ analyticsData[1].performanceScore = RInt(90)
    /\ analyticsData[1].investmentGrade = "A"
    /\ RLt(Rat(899, 10), analyticsData[2].performanceScore)
    /\ RLt(analyticsData[2].performanceScore, RInt(90))
    /\ analyticsData[2].investmentGrade = "B"

\* the recovery durations of a provider's rows, in days and in row order
DurationsOf(name) ==
    LET timed == SelectSeq(db, LAMBDA r :
                     /\ r.provider_name_per_tbr = name
                     /\ Truthy(r.origination_date) /\ Truthy(r.repayment_date))
    IN  [k \in 1..Len(timed) |-> timed[k].repayment_date.v - timed[k].origination_date.v]

\* C12: of two providers with the same number of cases and the same
\* recovery durations, the one with the higher recoveryRate has no lower
\* performanceScore (riskScore moving with recoveryRate included).
C12_PerformanceMonotoneInRecoveryRate ==
    AnalyticsDone =>
        \A j, k \in 1..Len(analyticsData) :
            LET a == analyticsData[j].provider
                b == analyticsData[k].provider
            IN  ( /\ Cardinality(RowsOf(db, a)) = Cardinality(RowsOf(db, b))
                  /\ DurationsOf(a) = DurationsOf(b)
                  /\ RLe(RowRecoveryRate(a), RowRecoveryRate(b)) )
                => RLe(analyticsData[j].performanceScore,
                       analyticsData[k].performanceScore)

C12_Witness ==
    /\ AnalyticsDone
    /\ Len(analyticsData) = 2
    /\ DurationsOf(analyticsData[1].provider) = <<300>>
    /\ DurationsOf(analyticsData[2].provider) = <<300>>
    /\ RLt(RowRecoveryRate(analyticsData[1].provider),
           RowRecoveryRate(analyticsData[2].provider))
    /\ RLt(analyticsData[2].riskScore, analyticsData[1].riskScore)
    /\ RLt(analyticsData[1].performanceScore, analyticsData[2].performanceScore)

Clamp(lo, x, hi) ==
    IF RLt(x, RInt(lo)) THEN RInt(lo) ELSE IF RLt(RInt(hi), x) THEN RInt(hi) ELSE x

\* C13: a provider none of whose rows has both an origination and a
\* repayment date is scored with avgRecoveryDays = 365: its riskScore is
\* (1 - recoveryRate)*50 + 50 clamped into [0, 100], a function of its
\* totals alone.
C13_NoDurationsScoredAsOneYear ==
    AnalyticsDone =>
        \A k \in 1..Len(analyticsData) :
            DurationsOf(analyticsData[k].provider) = <<>> =>
                analyticsData[k].riskScore
                    = Clamp(0, RAdd(RMul(RSub(RInt(1),
                                              RowRecoveryRate(analyticsData[k].provider)),
                                         RInt(50)),
                                    RInt(50)), 100)

C13_Witness ==
    /\ AnalyticsDone
    /\ Len(analyticsData) = 2
    /\ DurationsOf(analyticsData[1].provider) = <<>>
    /\ analyticsData[1].riskScore = RInt(60)
    /\ DurationsOf(analyticsData[2].provider) = <<300>>
    /\ RowRecoveryRate(analyticsData[2].provider)
         = RowRecoveryRate(analyticsData[1].provider)
    /\ RLt(analyticsData[2].riskScore, RInt(60))

DashboardDone == page = "dashboard" /\ ~loading /\ outcome = "ok"

\* a number that is neither NaN nor infinite
Finite(x) == x.d > 0

\* the rows of a provider that reach the curve bucket of a month
BucketRows(name, month) ==
    {i \in RowsOf(db, name) : month \in LoopMonths(MonthsSince(db[i], nowRead))}

\* the rows of a provider that originate in a calendar month
MonthRows(name, month) ==
    {i \in RowsOf(db, name) : IsoMonth(GetTime(db[i].origination_date).v) = month}

\* C14: every rate is finite, and 0 when its denominator is 0: the
\* recovery_rate of a provider that was sent nothing, avg_multiple without a
\* case, the recoveryRate of scoring with nothing invested, the rate of a
\* month with nothing invested, the recoveryRate of a curve point whose
\* bucket has nothing invested, and the dashboard multiple of a provider
\* with nothing invested.
C14_RatesGuarded ==
    /\ ProvidersDone =>
         \A k \in 1..Len(providers) :
             LET rows == RowsOf(db, providers[k].provider_name_per_tbr) IN
             /\ Finite(providers[k].recovery_rate)
             /\ Finite(providers[k].avg_multiple)
             /\ SumRows(db, rows, "total_sent") = 0 => providers[k].recovery_rate = Zero
             /\ Cardinality(rows) = 0 => providers[k].avg_multiple = Zero
    /\ AnalyticsDone =>
         LET map == AnalyticsForEach(db, 1, [threw |-> FALSE, map |-> <<>>]).map IN
         \A k \in 1..Len(map) :
             /\ Finite(RecoveryRate(map[k]))
             /\ SumRows(db, RowsOf(db, map[k].provider), "total_sent") = 0
                  => RecoveryRate(map[k]) = Zero
             /\ \A m \in 1..Len(map[k].monthlyPerformance) :
                  /\ Finite(MonthlyRates(map[k])[m])
                  /\ SumRows(db, MonthRows(map[k].provider,
                                           map[k].monthlyPerformance[m].month),
                             "total_sent") = 0
                       => MonthlyRates(map[k])[m] = Zero
             /\ Finite(analyticsData[k].riskScore)
             /\ Finite(analyticsData[k].performanceScore)
             /\ Finite(analyticsData[k].consistency)
    /\ CurvesDone =>
         \A k \in 1..Len(curveData) :
             /\ Finite(curveData[k].recoveryRate)
             /\ Finite(curveData[k].cumulativeRecovery)
             /\ SumRows(db, BucketRows(curveData[k].provider, curveData[k].month),
                        "total_sent") = 0
                  => curveData[k].recoveryRate = Zero
    /\ DashboardDone =>
         \A k \in 1..Len(ProviderPerformance(fundData)) :
             LET entry == ProviderPerformance(fundData)[k]
                 rows == {i \in 1..Len(db) : db[i].provider_name = entry.provider}
             IN  /\ Finite(entry.multiple)
                 /\ SumRows(db, rows, "total_invested") = 0 => entry.multiple = Zero
                 /\ SumRows(db, rows, "total_invested") > 0
                      => entry.multiple
                           = Rat(SumRows(db, rows, "total_balance_today"),
                                 SumRows(db, rows, "total_invested"))

C14_Witness ==
    /\ ProvidersDone
    /\ Len(providers) = 2
    /\ providers[1].total_sent = 0
    /\ providers[1].total_repaid > 0
    /\ providers[1].recovery_rate = Zero
    /\ providers[2].total_sent > 0
    /\ providers[2].recovery_rate = RInt(50)

\* the points of a provider, in the order they were emitted
PointsOf(name) == SelectSeq(curveData, LAMBDA point : point.provider = name)

\* the whole 30-day months between the origination of row i and its
\* repayment, or the clock when it is not repaid
ElapsedMonths(i) ==
    ((IF Truthy(db[i].repayment_date) THEN db[i].repayment_date.v ELSE nowRead)
        - db[i].origination_date.v) \div 30

\* C15: a provider with the single case sent 100, repaid 50, ten months,
\* has recoveryRate 0 at month 0, 25 at month 5 and 50 at month 10; in
\* general a single case of n > 0 months has at each month m of
\* 0..min(n, 36) the recoveryRate repaid * (m/n) / sent * 100.
C15_SingleCaseCurve ==
    CurvesDone =>
        \A i \in WithProvider(db) :
            LET name == db[i].provider_name_per_tbr
                points == PointsOf(name)
                n == ElapsedMonths(i)
            IN  ( /\ RowsOf(db, name) = {i}
                  /\ db[i].origination_date.t = "date"
                  /\ GreaterThanZero(db[i].total_sent)
                  /\ n > 0 )
                => /\ Len(points) = (IF n < 36 THEN n ELSE 36) + 1
                   /\ \A k \in 1..Len(points) :
                        /\ points[k].month = k - 1
                        /\ points[k].recoveryRate
                             = RMul(RDiv(RMul(RInt(OrZero(db[i].total_repaid)),
                                              Rat(k - 1, n)),
                                         RInt(db[i].total_sent.v)),
                                    RInt(100))
                   /\ ( db[i].total_sent = Num(100) /\ db[i].total_repaid = Num(50)
                        /\ n = 10 )
                      => /\ points[1].recoveryRate = Zero
                         /\ points[6].recoveryRate = RInt(25)
                         /\ points[11].recoveryRate = RInt(50)

C15_Witness ==
    /\ CurvesDone
    /\ Len(db) = 1
    /\ db[1].total_sent = Num(100)
    /\ db[1].total_repaid = Num(50)
    /\ ElapsedMonths(1) = 10
    /\ Len(curveData) = 11
    /\ curveData[1].month = 0 /\ curveData[1].recoveryRate = Zero
    /\ curveData[6].month = 5 /\ curveData[6].recoveryRate = RInt(25)
    /\ curveData[11].month = 10 /\ curveData[11].recoveryRate = RInt(50)

\* the places of a provider's points in curveData
PlacesOf(name) == {k \in 1..Len(curveData) : curveData[k].provider = name}

\* C16: the points of each provider stand together in curveData and their
\* months are 0, 1, 2, ... without a gap, whatever the lengths of the
\* provider's cases and whichever comes first.
C16_PointsContiguousAndIncreasing ==
    CurvesDone =>
        \A n \in 1..Len(curveProviders) :
            LET name == curveProviders[n]
                points == PointsOf(name)
            IN  /\ \A k \in 1..Len(points) : points[k].month = k - 1
                /\ \A j, k \in PlacesOf(name) :
                     \A between \in j..k : between \in PlacesOf(name)

C16_Witness ==
    /\ CurvesDone
    /\ Len(db) = 2
    /\ RowsOf(db, "X") = {1, 2}
    /\ db[1].origination_date.t = "date"
    /\ db[2].origination_date.t = "date"
    /\ db[1].origination_date.v < db[2].origination_date.v
    /\ ElapsedMonths(1) = 2
    /\ ElapsedMonths(2) > 2
    /\ Len(PointsOf("X")) = ElapsedMonths(2) + 1

\* the rows of a provider whose span from the origination (the epoch for
\* a null one) covers a month
Covering(name, month) ==
    {i \in RowsOf(db, name) :
        /\ db[i].origination_date.t \in {"date", "null"}
        /\ 0 <= month
        /\ month <= ElapsedMonths(i)
        /\ month <= 36}

\* the buckets the curves page builds from the rows it was given
BucketsOf(name) ==
    LET map == CurveForEach(OrderByOrigination(db, 1, <<>>), 1,
                            [map |-> <<>>, providerSet |-> {}], nowRead).map
    IN  map[CurveIndex(map, name)].curve

\* C17: a row with a provider and an origination date is counted in the
\* buckets 0..min(monthsSince, 36) of its provider and in no other: every
\* bucket holds the amount sent and the number of exactly the rows whose
\* span covers its month, and every month so covered has its bucket; no
\* point lies before month 0 or after month 36.
C17_BucketsOfARecord ==
    CurvesDone =>
        /\ \A k \in 1..Len(curveData) :
             /\ curveData[k].month >= 0
             /\ curveData[k].month <= 36
             /\ curveData[k].cases
                  = Cardinality(Covering(curveData[k].provider, curveData[k].month))
        /\ \A n \in 1..Len(curveProviders) :
             LET name == curveProviders[n]
                 buckets == BucketsOf(name)
             IN  /\ \A b \in 1..Len(buckets) :
                      /\ buckets[b].totalInvested
                           = SumRows(db, Covering(name, buckets[b].month), "total_sent")
                      /\ buckets[b].caseCount
                           = Cardinality(Covering(name, buckets[b].month))
                 /\ \A month \in 0..36 :
                      Covering(name, month) # {}
                          => \E b \in 1..Len(buckets) : buckets[b].month = month

C17_Witness ==
    /\ CurvesDone
    /\ Len(db) = 2
    /\ RowsOf(db, "X") = {1, 2}
    /\ db[1].origination_date.t = "date"
    /\ db[2].origination_date.t = "date"
    /\ ElapsedMonths(1) = 48
    /\ ElapsedMonths(2) = 10
    /\ Len(curveData) = 37
    /\ curveData[11].cases = 2
    /\ curveData[12].cases = 1
    /\ curveData[37].month = 36

\* C18: the cumulativeRecovery of a provider's point at month m is the sum
\* of the recoveryRate of the provider's points of months 0..m (the rate of
\* month 0, and from then on the previous point's sum plus the point's own
\* rate), a sum of rates, and so never falls from one month to the next.
C18_CumulativeIsSumOfRates ==
    CurvesDone =>
        \A n \in 1..Len(curveProviders) :
            LET points == PointsOf(curveProviders[n])
            IN  \A k \in 1..Len(points) :
                    /\ k = 1 => points[k].cumulativeRecovery = points[k].recoveryRate
                    /\ k > 1 =>
                         /\ points[k].cumulativeRecovery
                              = RAdd(points[k - 1].cumulativeRecovery,
                                     points[k].recoveryRate)
                         /\ RLe(points[k - 1].cumulativeRecovery,
                                points[k].cumulativeRecovery)

C18_Witness ==
    /\ CurvesDone
    /\ Len(db) = 2
    /\ Len(PointsOf("X")) = 11
    /\ Len(PointsOf("Y")) = 11
    /\ PointsOf("X")[11].recoveryRate = RInt(50)
    /\ PointsOf("X")[11].cumulativeRecovery = RInt(275)
    /\ PointsOf("Y")[1].cumulativeRecovery = Zero
    /\ PointsOf("Y")[11].cumulativeRecovery = RInt(275)

\* C19: the mounted page has at most one fetch awaiting its query, and has
\* one only while loading is true; the Retry button and the time-frame
\* select, which start a fetch, are on the screen only when none is pending.
C19_OneFetchInFlight ==
    /\ inflight <= 1
    /\ inflight = 1 => loading
    /\ ErrorShown => inflight = 0
    /\ (page = "analytics" /\ ~loading) => inflight = 0

C19_Witness ==
    /\ page = "dashboard"
    /\ outcome = "query_error"
    /\ error # NULL
    /\ loading
    /\ inflight = 1

\* C20: recoveryVelocity is (recoveryRate*100) / (avgRecoveryDays/30) when
\* avgRecoveryDays is positive and 0 when it is zero or negative (cases
\* repaid the same day, or before their origination); it is never negative.
C20_RecoveryVelocity ==
    AnalyticsDone =>
        \A k \in 1..Len(analyticsData) :
            LET rate == RowRecoveryRate(analyticsData[k].provider)
                days == RowAvgRecoveryDays(analyticsData[k].provider)
            IN  /\ RLt(Zero, days) =>
                     analyticsData[k].recoveryVelocity
                         = RDiv(RMul(rate, RInt(100)), RDiv(days, RInt(30)))
                /\ RLe(days, Zero) => analyticsData[k].recoveryVelocity = Zero
                /\ RLe(Zero, analyticsData[k].recoveryVelocity)

C20_Witness ==
    /\ AnalyticsDone
    /\ Len(analyticsData) = 2
    /\ DurationsOf(analyticsData[1].provider) = <<-10>>
    /\ RLt(Zero, RowRecoveryRate(analyticsData[1].provider))
    /\ analyticsData[1].recoveryVelocity = Zero
    /\ DurationsOf(analyticsData[2].provider) = <<300>>
    /\ RowRecoveryRate(analyticsData[2].provider) = Rat(4, 5)
    /\ analyticsData[2].recoveryVelocity = RInt(8)

\* the calendar months (UTC) in which the rows of a provider originate
OriginMonths(name) ==
    {<<CivilFromDays(GetTime(db[i].origination_date).v).year,
       CivilFromDays(GetTime(db[i].origination_date).v).month>> : i \in RowsOf(db, name)}

\* the entries the analytics page accumulates from the rows it was given
AnalyticsOf(data) == AnalyticsForEach(data, 1, [threw |-> FALSE, map |-> <<>>]).map

\* C21: every scored provider has a monthly bucket for each calendar month
\* its cases originate in, so at least one; when they all originate in one
\* month the variance is 0 and consistency is exactly 100; consistency
\* always lies in [0, 100].
C21_ConsistencyOfMonths ==
    AnalyticsDone =>
        \A k \in 1..Len(analyticsData) :
            LET entry == AnalyticsOf(db)[k]
                months == OriginMonths(analyticsData[k].provider)
            IN  /\ Len(entry.monthlyPerformance) >= 1
                /\ Len(entry.monthlyPerformance) = Cardinality(months)
                /\ Cardinality(months) = 1 =>
                     /\ Variance(MonthlyRates(entry)) = Zero
                     /\ analyticsData[k].consistency = RInt(100)
                /\ Between(0, analyticsData[k].consistency, 100)

C21_Witness ==
    /\ AnalyticsDone
    /\ Len(db) = 2
    /\ Len(analyticsData) = 1
    /\ db[1].total_repaid # db[2].total_repaid
    /\ Cardinality(OriginMonths(analyticsData[1].provider)) = 1
    /\ analyticsData[1].consistency = RInt(100)

\* recoveryVelocity*10 + consistency*0.3 + performanceScore*0.6 of a scored provider
WeightedSum(scored) ==
    RAdd(RAdd(RMul(scored.recoveryVelocity, RInt(10)),
              RMul(scored.consistency, Rat(3, 10))),
         RMul(scored.performanceScore, Rat(6, 10)))

\* C22: efficiency is recoveryVelocity*10 + consistency*0.3 +
\* performanceScore*0.6, capped at 100, and lies in [0, 100] whatever the
\* recovery durations are.
C22_Efficiency ==
    AnalyticsDone =>
        \A k \in 1..Len(analyticsData) :
            /\ analyticsData[k].efficiency
                 = (IF RLt(RInt(100), WeightedSum(analyticsData[k]))
                    THEN RInt(100) ELSE WeightedSum(analyticsData[k]))
            /\ Between(0, analyticsData[k].efficiency, 100)

C22_Witness ==
    /\ AnalyticsDone
    /\ Len(analyticsData) = 2
    /\ RLt(RInt(100), WeightedSum(analyticsData[1]))
    /\ analyticsData[1].efficiency = RInt(100)
    /\ DurationsOf(analyticsData[2].provider) = <<-10>>
    /\ analyticsData[2].recoveryVelocity = Zero
    /\ RLt(analyticsData[2].efficiency, RInt(100))
    /\ analyticsData[2].efficiency = WeightedSum(analyticsData[2])

\* the number of points a single case of n months gives
PointCount(n) == IF n < 0 THEN 0 ELSE (IF n < 36 THEN n ELSE 36) + 1

\* C23: a case without a repayment date is ongoing: its months are counted
\* from the origination to the clock read when the curves are computed; a
\* case with a repayment date is counted to that date, and the curves of
\* rows that all have one are the same whatever the clock reads.
C23_OngoingCaseUsesNow ==
    CurvesDone =>
        /\ \A i \in WithProvider(db) :
             LET name == db[i].provider_name_per_tbr IN
             (RowsOf(db, name) = {i} /\ db[i].origination_date.t = "date") =>
                 Len(PointsOf(name))
                     = (IF Truthy(db[i].repayment_date)
                        THEN PointCount((db[i].repayment_date.v
                                            - db[i].origination_date.v) \div 30)
                        ELSE PointCount((nowRead - db[i].origination_date.v) \div 30))
        /\ (\A i \in WithProvider(db) : Truthy(db[i].repayment_date)) =>
             \A now \in Clock :
                 curveData = ProcessCurves(OrderByOrigination(db, 1, <<>>), now).curves

C23_Witness ==
    /\ CurvesDone
    /\ Len(db) = 2
    /\ db[1].provider_name_per_tbr = "X"
    /\ db[1].origination_date = Date(2024, 6, 1)
    /\ ~Truthy(db[1].repayment_date)
    /\ db[2].provider_name_per_tbr = "Y"
    /\ Truthy(db[2].repayment_date)
    /\ nowRead = DaysFromCivil(2025, 1, 15)
    /\ Len(PointsOf("X")) = 8
    /\ Len(PointsOf("Y")) = 11

\* the sum of repaid/sent over those of the rows that were sent something
RECURSIVE SumMultiples(_)
SumMultiples(rows) ==
    IF rows = {} THEN Zero
    ELSE LET i == CHOOSE i \in rows : TRUE
         IN  RAdd(IF GreaterThanZero(db[i].total_sent)
                  THEN Rat(OrZero(db[i].total_repaid), db[i].total_sent.v)
                  ELSE Zero,
                  SumMultiples(rows \ {i}))

\* C24: the multiple-sum of a provider is the sum of repaid/sent over its
\* rows with an amount sent above 0, and avg_multiple is that sum divided by
\* the number of all its rows, those that were sent nothing included.
C24_AvgMultiple ==
    ProvidersDone =>
        \A k \in 1..Len(providers) :
            LET rows == RowsOf(db, providers[k].provider_name_per_tbr) IN
            /\ providers[k].total_multiple = SumMultiples(rows)
            /\ providers[k].case_count = Cardinality(rows)
            /\ RMul(providers[k].avg_multiple, RInt(Cardinality(rows)))
                 = SumMultiples(rows)

C24_Witness ==
    /\ ProvidersDone
    /\ Len(db) = 2
    /\ Len(providers) = 1
    /\ \E i \in 1..2 : db[i].total_sent = Num(0) /\ db[i].total_repaid = Num(500)
    /\ providers[1].total_multiple = Rat(3, 2)
    /\ providers[1].case_count = 2
    /\ providers[1].avg_multiple = Rat(3, 4)

\* C25: on the dashboard, once a fetch has succeeded (also a retried one
\* after a failure) the page is out of the error state: error is null and
\* the fetched rows are shown.
C25_SuccessClearsError ==
    DashboardDone => (error = NULL /\ ~ErrorShown /\ fundData = db)

\* C26: on the admin page uploading is true from the press of Upload until
\* the last batch of that upload has been attempted, so that no second
\* upload is started while batches of the first are being sent: at most one
\* upload is under way.
C26_UploadingUntilLastBatch ==
    LET underWay == {r \in 1..Len(runs) : runs[r].pc \in {"reading", "awaiting"}}
    IN  /\ underWay # {} => uploading
        /\ Cardinality(underWay) <= 1

\* the await of a pending query ends: the promise of the query resolves
\* with rows, resolves with an error or rejects, and the rest of the fetch
\* (catch and finally included) runs
Settle ==
    \/ QueryFails
    \/ DashboardResolve
    \/ ProvidersResolve
    \/ AnalyticsResolve
    \/ CurvesResolve

\* the pages, with every pending query answered in the end
SpecSettling == Init /\ [][Next]_vars /\ WF_vars(Settle /\ UNCHANGED last)

\* C27: on every data page a fetch that has been started sets loading back
\* to false in the end, whether its query succeeds, returns an error or the
\* fetch throws: a page that shows the spinner always comes to a state
\* without it.
C27_LoadingEnds == loading ~> ~loading

\* a fetch of the analytics page threw while it processed its rows, and the
\* spinner is gone
C27_Witness ==
    /\ page = "analytics"
    /\ outcome = "exception"
    /\ inflight = 0
    /\ ~loading

\* what the rows of a set recover by a month: each row that lasted n > 0
\* months its amount repaid times month/n, at most the whole of it
RECURSIVE RecoveredBy(_, _)
RecoveredBy(rows, month) ==
    IF rows = {} THEN Zero
    ELSE LET i == CHOOSE i \in rows : TRUE
             n == ElapsedMonths(i)
         IN  RAdd(IF n > 0
                  THEN RMul(RInt(OrZero(db[i].total_repaid)),
                            RMin(Rat(month, n), RInt(1)))
                  ELSE Zero,
                  RecoveredBy(rows \ {i}, month))

\* C28: the month-0 point of every provider has recoveryRate 0 and
\* cumulativeRecovery 0; a row of 0 months adds its amount sent to month 0
\* and no recovered amount to any bucket, also when it was repaid in full;
\* a row of a negative number of months is in no bucket, and its provider
\* is in the provider list all the same.
C28_MonthZeroAndShortCases ==
    CurvesDone =>
        /\ \A k \in 1..Len(curveData) :
             curveData[k].month = 0
                 => /\ curveData[k].recoveryRate = Zero
                    /\ curveData[k].cumulativeRecovery = Zero
        /\ \A i \in WithProvider(db) :
             \E n \in 1..Len(curveProviders) :
                 curveProviders[n] = db[i].provider_name_per_tbr
        /\ \A n \in 1..Len(curveProviders) :
             LET name == curveProviders[n]
                 buckets == BucketsOf(name)
                 counted(month) ==
                     {i \in RowsOf(db, name) :
                         /\ db[i].origination_date.t \in {"date", "null"}
                         /\ ElapsedMonths(i) >= 0
                         /\ month \in 0..ElapsedMonths(i)}
             IN  \A b \in 1..Len(buckets) :
                     /\ buckets[b].caseCount = Cardinality(counted(buckets[b].month))
                     /\ buckets[b].totalInvested
                          = SumRows(db, counted(buckets[b].month), "total_sent")
                     /\ buckets[b].totalRecovered
                          = RecoveredBy(counted(buckets[b].month), buckets[b].month)
                     /\ buckets[b].month = 0
                          => buckets[b].totalRecovered = Zero

\* one provider's only case ended before it began, the other's was repaid
\* in full within its first month
C28_Witness ==
    /\ CurvesDone
    /\ Len(db) = 2
    /\ \E i, j \in 1..2 :
         /\ db[i].provider_name_per_tbr = "X"
         /\ db[i].origination_date.t = "date"
         /\ ElapsedMonths(i) < 0
         /\ db[j].provider_name_per_tbr = "Y"
         /\ db[j].origination_date.t = "date"
         /\ ElapsedMonths(j) = 0
         /\ db[j].total_sent = Num(100)
         /\ db[j].total_repaid = Num(100)
    /\ curveProviders = <<"X", "Y">>
    /\ PointsOf("X") = <<>>
    /\ Len(PointsOf("Y")) = 1
    /\ BucketsOf("Y")[1].totalInvested = 100
    /\ BucketsOf("Y")[1].totalRecovered = Zero
    /\ PointsOf("Y")[1].month = 0
    /\ PointsOf("Y")[1].cases = 1
    /\ PointsOf("Y")[1].recoveryRate = Zero
    /\ PointsOf("Y")[1].cumulativeRecovery = Zero

\* C29: after the accumulation the month buckets of each provider are
\* exactly the months 0..K for some K of at most 36, and the case count and
\* the amount invested of the buckets never grow from a month to the next.
C29_BucketsArePrefix ==
    CurvesDone =>
        \A n \in 1..Len(curveProviders) :
            LET buckets == BucketsOf(curveProviders[n])
                points == PointsOf(curveProviders[n])
            IN  /\ Len(buckets) <= MaxMonths + 1
                /\ \A b \in 1..Len(buckets) : buckets[b].month = b - 1
                /\ \A b \in 2..Len(buckets) :
                     /\ buckets[b - 1].caseCount >= buckets[b].caseCount
                     /\ buckets[b - 1].totalInvested >= buckets[b].totalInvested
                /\ Len(points) = Len(buckets)
                /\ \A k \in 2..Len(points) : points[k - 1].cases >= points[k].cases

\* a case of four years and one of two months: 37 buckets, the first three
\* with both cases and the rest with the long one alone
C29_Witness ==
    /\ CurvesDone
    /\ Len(db) = 2
    /\ RowsOf(db, "X") = {1, 2}
    /\ \E i, j \in 1..2 :
         /\ db[i].origination_date.t = "date" /\ ElapsedMonths(i) = 48
         /\ db[i].total_sent = Num(200)
         /\ db[j].origination_date.t = "date" /\ ElapsedMonths(j) = 2
         /\ db[j].total_sent = Num(100)
    /\ Len(BucketsOf("X")) = 37
    /\ BucketsOf("X")[3].month = 2
    /\ BucketsOf("X")[3].caseCount = 2
    /\ BucketsOf("X")[3].totalInvested = 300
    /\ BucketsOf("X")[4].caseCount = 1
    /\ BucketsOf("X")[4].totalInvested = 200
    /\ BucketsOf("X")[37].month = 36

\* C30: the values one upload passes to setUploadProgress never fall: 0,
\* 10, 30, then one value of at most 90 after each batch, then 100; it sets
\* 100 only when every batch has been attempted; and the message it ends
\* with is of type success exactly when its failed count is 0.
C30_ProgressOfARun ==
    [][\A r \in 1..Len(runs') :
          LET run == runs'[r]
              log == run.progress
              began == r > Len(runs)
              ended == ~began /\ runs[r].pc # "done" /\ run.pc = "done"
          IN  (began \/ runs[r] # run) =>
              /\ \A k \in 2..Len(log) : RLe(log[k - 1], log[k])
              /\ \A k \in 1..Len(log) :
                   /\ k = 1 => log[k] = Zero
                   /\ k = 2 => log[k] = RInt(10)
                   /\ k = 3 => log[k] = RInt(30)
                   /\ (3 < k /\ k <= 3 + Len(run.attempts))
                        => /\ RLe(log[k], RInt(90))
                           /\ log[k] = RMin(RInt(90),
                                             RAdd(RInt(30),
                                                  RMul(Rat(run.attempts[k - 3].start
                                                            + run.attempts[k - 3].size,
                                                           run.n),
                                                       RInt(60))))
                   /\ log[k] = RInt(100)
                        => /\ k = Len(log)
                           /\ k = 4 + BatchCount(run.n)
                           /\ Len(run.attempts) = BatchCount(run.n)
                           /\ run.pc = "done"
              /\ run.pc = "done" => log[Len(log)] = RInt(100)
              /\ (began \/ Len(log) > Len(runs[r].progress))
                   => uploadProgress' = log[Len(log)]
              /\ ended => /\ (message' = "success") = (run.failCount = 0)
                          /\ message' \in {"success", "error"}
                          /\ uploadStats'.failed = run.failCount]_vars

\* an upload of 150 records in two batches, the second of which failed
C30_Witness ==
    /\ Len(runs) = 1
    /\ runs[1].pc = "done"
    /\ runs[1].n = 150
    /\ runs[1].progress = <<Zero, RInt(10), RInt(30), RInt(70), RInt(90), RInt(100)>>
    /\ runs[1].failCount = 50
    /\ uploadProgress = RInt(100)
    /\ message = "error"

====
